---------------------------- MODULE Spec2Model ----------------------------
(***************************************************************************)
(* Continental Snooker booking tool (src/continental_app.py).              *)
(*                                                                         *)
(* The program is a Streamlit script: every interaction reruns the script  *)
(* from top to bottom.  One rerun = Save Booking handler (when the button  *)
(* was pressed), then the live price estimate, then the Quick Stats panel. *)
(*                                                                         *)
(* Text is modelled as a sequence of one-character strings so that strip,  *)
(* upper and strptime are computed character by character.  Money is kept  *)
(* in hundredths of a rupee, durations in seconds, dates as day numbers.   *)
(* For the rates of PRICES and whole-minute durations the float product    *)
(* hours * rate rounds to the exact value m * rate / 60, so the integer    *)
(* arithmetic below gives the prices the script gives.                     *)
(*                                                                         *)
(* The "All Saved Bookings" table only reads the file and is left out.     *)
(***************************************************************************)
EXTENDS Integers, Sequences, FiniteSets, TLC

VARIABLES
    file,      \* snooker_bookings.csv on disk
    today,     \* the calendar day datetime.today() returns
    disk,      \* condition of the file system for to_csv
    form,      \* st.session_state: the four input widgets
    out,       \* what the last rerun computed and displayed
    fresh,     \* TRUE while nothing has touched the world since the last rerun
    saved,     \* history: the rows the successful bookings asked to append
    sess,      \* the concurrent sessions (SpecConc)
    hist       \* history: order of the sessions' reads and writes (SpecConc)

vars == <<file, today, disk, form, out, fresh, saved, sess, hist>>

----------------------------------------------------------------------------
(* Bounds                                                                  *)

MaxRows == 2
MaxDay == 1

----------------------------------------------------------------------------
(* Text helpers                                                            *)

Digits == {"0", "1", "2", "3", "4", "5", "6", "7", "8", "9"}

DigitVal(c) ==
    CASE c = "0" -> 0 [] c = "1" -> 1 [] c = "2" -> 2 [] c = "3" -> 3
      [] c = "4" -> 4 [] c = "5" -> 5 [] c = "6" -> 6 [] c = "7" -> 7
      [] c = "8" -> 8 [] c = "9" -> 9

\* str.strip(): drop leading and trailing whitespace
RECURSIVE LStrip(_)
LStrip(s) ==
    IF s # <<>> /\ Head(s) = " " THEN LStrip(Tail(s)) ELSE s

RECURSIVE RStrip(_)
RStrip(s) ==
    IF s # <<>> /\ s[Len(s)] = " " THEN RStrip(SubSeq(s, 1, Len(s) - 1)) ELSE s

Strip(s) == RStrip(LStrip(s))

\* str.upper() on the letters the inputs use
UpperChar(c) ==
    CASE c = "a" -> "A" [] c = "p" -> "P" [] c = "m" -> "M"
      [] c = "t" -> "T" [] c = "w" -> "W" [] c = "o" -> "O"
      [] OTHER -> c

Upper(s) == [i \in 1..Len(s) |-> UpperChar(s[i])]

----------------------------------------------------------------------------
(* datetime.strptime(text, "%I:%M %p")                                     *)
(*   %I  1[0-2]|0[1-9]|[1-9]      %M  [0-5]\d|\d                           *)
(*   " " one or more whitespace   %p  AM|PM      whole string must match   *)

Invalid == 0 - 1

\* hour field: the text before ":"; 1..12 or Invalid
HourField(h) ==
    IF Len(h) = 1 /\ h[1] \in Digits \ {"0"} THEN DigitVal(h[1])
    ELSE IF Len(h) = 2 /\ h[1] = "0" /\ h[2] \in Digits \ {"0"} THEN DigitVal(h[2])
    ELSE IF Len(h) = 2 /\ h[1] = "1" /\ h[2] \in {"0", "1", "2"} THEN 10 + DigitVal(h[2])
    ELSE Invalid

\* minute field: 0..59 or Invalid
MinuteField(m) ==
    IF Len(m) = 1 /\ m[1] \in Digits THEN DigitVal(m[1])
    ELSE IF Len(m) = 2 /\ m[1] \in {"0", "1", "2", "3", "4", "5"} /\ m[2] \in Digits
         THEN 10 * DigitVal(m[1]) + DigitVal(m[2])
    ELSE Invalid

\* position of the first c in s, 0 when there is none
IndexOf(s, c) ==
    IF \E i \in 1..Len(s) : s[i] = c
    THEN CHOOSE i \in 1..Len(s) : s[i] = c /\ \A j \in 1..(i - 1) : s[j] # c
    ELSE 0

\* seconds since midnight of the parsed time, or Invalid (ValueError)
Strptime(s) ==
    LET colon == IndexOf(s, ":")
        space == IndexOf(s, " ")
    IN  IF colon = 0 \/ space = 0 \/ space < colon THEN Invalid
        ELSE LET hh   == HourField(SubSeq(s, 1, colon - 1))
                 mm   == MinuteField(SubSeq(s, colon + 1, space - 1))
                 ampm == LStrip(SubSeq(s, space, Len(s)))
             IN  IF hh = Invalid \/ mm = Invalid \/ ampm \notin {<<"A", "M">>, <<"P", "M">>}
                 THEN Invalid
                 ELSE LET h24 == IF ampm = <<"A", "M">>
                                 THEN (IF hh = 12 THEN 0 ELSE hh)
                                 ELSE (IF hh = 12 THEN 12 ELSE hh + 12)
                      IN  3600 * h24 + 60 * mm

\* datetime.strptime(x.strip().upper(), "%I:%M %p")
ParseTime(text) == Strptime(Upper(Strip(text)))

----------------------------------------------------------------------------
(* Configuration                                                           *)

T1 == "English Snooker Table 1"
T2 == "English Snooker Table 2"
T3 == "French Snooker Table"

\* Prices per hour, in rupees
PRICES == (T1 :> 240) @@ (T2 :> 240) @@ (T3 :> 180)

Tables == DOMAIN PRICES

\* pd.Timedelta(days=1), in seconds
DaySeconds == 86400

\* seconds per hour: delta.total_seconds() / 3600
HourSeconds == 3600

----------------------------------------------------------------------------
(* Duration and price                                                      *)

\* round(num / den, 2) in hundredths; ties go to the even neighbour
Round2(num, den) ==
    LET q == (100 * num) \div den
        r == (100 * num) % den
    IN  IF 2 * r < den THEN q
        ELSE IF 2 * r > den THEN q + 1
        ELSE IF q % 2 = 0 THEN q ELSE q + 1

\* variant: the day is not added to a negative delta
DeltaNoWrap(start_dt, end_dt) == end_dt - start_dt

\* delta = end_dt - start_dt; a negative delta gets one day added
Delta(start_dt, end_dt) ==
    LET d == end_dt - start_dt
    IN  IF d < 0 THEN d + DaySeconds ELSE d

\* variant: only a negative duration is rejected
DurationRejectedNegativeOnly(delta) == delta < 0

\* the handler's guard: "End time must be after start time."
DurationRejected(delta) == delta <= 0

\* variant: the hours are cut to a whole number before pricing
PriceWholeHours(table, delta) == 100 * ((delta \div HourSeconds) * PRICES[table])

\* price = round(hours * PRICES[table], 2) with hours = seconds / 3600
Price(table, delta) == Round2(delta * PRICES[table], HourSeconds)

\* round(hours, 2) as shown in the messages
ShownHours(delta) == Round2(delta, HourSeconds)

\* variant: the name is tested without strip()
NameRejectedNoStrip(name) == name = <<>>

\* if not name.strip()
NameRejected(name) == Strip(name) = <<>>

----------------------------------------------------------------------------
(* The CSV file                                                            *)
(* file.rows is the text of the data rows; a DataFrame is the sequence of  *)
(* rows pandas holds in memory.  Columns: Name, Table, Time, Price, Date.  *)

Absent == [exists |-> FALSE, parsable |-> FALSE, rows |-> <<>>]

\* the missing value pandas puts where a field reads as NA
NaN == <<"NaN">>

\* strings read_csv takes for a missing value (pandas' default na_values)
NaValues ==
    { <<>>, <<"N", "A">>, <<"N", "/", "A">>, <<"n", "/", "a">>,
      <<"N", "U", "L", "L">>, <<"n", "u", "l", "l">>,
      <<"N", "a", "N">>, <<"n", "a", "n">> }

\* one field of the Name column as read_csv returns it
ReadField(text) == IF text \in NaValues THEN NaN ELSE text

\* one field of the Name column as to_csv writes it (na_rep = "")
WriteField(value) == IF value = NaN THEN <<>> ELSE value

\* pd.read_csv(EXCEL_FILE) on a parsable file
ReadCsv(rows) ==
    [i \in 1..Len(rows) |-> [rows[i] EXCEPT !.Name = ReadField(rows[i].Name)]]

\* the text df.to_csv(EXCEL_FILE, index=False) produces
CsvText(df) ==
    [i \in 1..Len(df) |-> [df[i] EXCEPT !.Name = WriteField(df[i].Name)]]

\* variant: an unparsable file keeps the rows it held
LoadLedgerKeepRows(fl) ==
    IF fl.exists
    THEN [df |-> ReadCsv(fl.rows), warning |-> ~fl.parsable]
    ELSE [df |-> <<>>, warning |-> FALSE]

\* the ledger load of the handler: read, or start empty with a warning
LoadLedger(fl) ==
    IF fl.exists
    THEN IF fl.parsable
         THEN [df |-> ReadCsv(fl.rows), warning |-> FALSE]
         ELSE [df |-> <<>>, warning |-> TRUE]
    ELSE [df |-> <<>>, warning |-> FALSE]

\* new_row
NewRow(f, price, td) ==
    [ Name  |-> Strip(f.name),
      Table |-> f.table,
      Time  |-> f.start \o <<" ", "-", " ">> \o f.end,
      Price |-> price,
      Date  |-> td ]

\* pd.concat([df, pd.DataFrame([new_row])], ignore_index=True)
Concat(df, row) == Append(df, row)

\* variant: a failing write raises only after the whole file is on disk
ToCsvRaiseAfterWrite(fl, df, dk) ==
    { [file |-> [exists |-> TRUE, parsable |-> TRUE, rows |-> CsvText(df)],
       raised |-> dk # "ok"] }

\* df.to_csv(EXCEL_FILE, index=False): the file left behind and whether it raised.
\*   "ok"      the file is rewritten in full
\*   "denied"  open() raises, the file is untouched
\*   "full"    open() truncates the file, the write raises: the file is left
\*             empty (unparsable) or holding some of the old rows
ToCsv(fl, df, dk) ==
    IF dk = "ok"
    THEN { [file |-> [exists |-> TRUE, parsable |-> TRUE, rows |-> CsvText(df)],
            raised |-> FALSE] }
    ELSE IF dk = "denied"
    THEN { [file |-> fl, raised |-> TRUE] }
    ELSE { [file |-> [exists |-> TRUE, parsable |-> FALSE, rows |-> <<>>],
            raised |-> TRUE] }
         \cup
         { [file |-> [exists |-> TRUE, parsable |-> TRUE,
                      rows |-> SubSeq(CsvText(df), 1, k)],
            raised |-> TRUE] : k \in 0..(Len(df) - 1) }

----------------------------------------------------------------------------
(* The Save Booking handler                                                *)

NoRow == [Name |-> <<>>, Table |-> T1, Time |-> <<>>, Price |-> Invalid, Date |-> Invalid]

Rejection(fl, m) ==
    [file |-> fl, msg |-> m, warning |-> FALSE, delta |-> Invalid,
     price |-> Invalid, hours |-> Invalid, row |-> NoRow]

\* validation and calculation: the rejection, or "ok" with delta and price
Validate(f) ==
    IF NameRejected(f.name)
    THEN [msg |-> "EmptyName", delta |-> Invalid, price |-> Invalid]
    ELSE
    LET start_dt == ParseTime(f.start)
        end_dt   == ParseTime(f.end)
    IN  IF start_dt = Invalid \/ end_dt = Invalid
        THEN [msg |-> "InvalidTime", delta |-> Invalid, price |-> Invalid]
        ELSE
        LET delta == Delta(start_dt, end_dt)
        IN  IF DurationRejected(delta)
            THEN [msg |-> "NonPositive", delta |-> Invalid, price |-> Invalid]
            ELSE [msg |-> "ok", delta |-> delta, price |-> Price(f.table, delta)]

\* the outcomes of one press of Save Booking with form f
SaveBooking(f, fl, dk, td) ==
    LET v == Validate(f)
    IN  IF v.msg # "ok" THEN { Rejection(fl, v.msg) }
        ELSE
        LET loaded == LoadLedger(fl)
            row    == NewRow(f, v.price, td)
            df     == Concat(loaded.df, row)
        IN  { [ file    |-> w.file,
                msg     |-> IF w.raised THEN "Unexpected" ELSE "Saved",
                warning |-> loaded.warning,
                delta   |-> v.delta,
                price   |-> v.price,
                hours   |-> ShownHours(v.delta),
                row     |-> row ] : w \in ToCsv(fl, df, dk) }

\* a rerun in which the button was not pressed
NotPressed(fl) == Rejection(fl, "none")

----------------------------------------------------------------------------
(* Live price estimate                                                     *)

Estimate(f) ==
    LET start_dt_calc == ParseTime(f.start)
        end_dt_calc   == ParseTime(f.end)
    IN  IF start_dt_calc = Invalid \/ end_dt_calc = Invalid
        THEN [shown |-> FALSE, delta |-> Invalid, price |-> Invalid, hours |-> Invalid]
        ELSE LET delta_calc == Delta(start_dt_calc, end_dt_calc)
             IN  [ shown |-> TRUE,
                   delta |-> delta_calc,
                   price |-> Price(f.table, delta_calc),
                   hours |-> ShownHours(delta_calc) ]

\* st.stop() ended the script before the estimate was drawn
EstimateStopped ==
    [shown |-> FALSE, delta |-> Invalid, price |-> Invalid, hours |-> Invalid]

----------------------------------------------------------------------------
(* Quick Stats                                                             *)

RECURSIVE SumPrice(_)
SumPrice(df) ==
    IF df = <<>> THEN 0 ELSE Head(df).Price + SumPrice(Tail(df))

\* df[df["Date"] == today]
OnDate(df, td) == SelectSeq(df, LAMBDA r : r.Date = td)

\* variant: today's revenue is not filtered by date
QuickStatsNoDateFilter(fl, td) ==
    IF fl.exists
    THEN IF fl.parsable
         THEN LET df == ReadCsv(fl.rows)
              IN  [ kind  |-> "metrics",
                    total_bookings |-> Len(df),
                    total_revenue  |-> SumPrice(df),
                    today_revenue  |-> SumPrice(df) ]
         ELSE [kind |-> "error", total_bookings |-> 0, total_revenue |-> 0,
               today_revenue |-> 0]
    ELSE [kind |-> "none", total_bookings |-> 0, total_revenue |-> 0,
          today_revenue |-> 0]

QuickStats(fl, td) ==
    IF fl.exists
    THEN IF fl.parsable
         THEN LET df == ReadCsv(fl.rows)
              IN  [ kind  |-> "metrics",
                    total_bookings |-> Len(df),
                    total_revenue  |-> SumPrice(df),
                    today_revenue  |-> SumPrice(OnDate(df, td)) ]
         ELSE [kind |-> "error", total_bookings |-> 0, total_revenue |-> 0,
               today_revenue |-> 0]
    ELSE [kind |-> "none", total_bookings |-> 0, total_revenue |-> 0,
          today_revenue |-> 0]

StatsStopped ==
    [kind |-> "stopped", total_bookings |-> 0, total_revenue |-> 0, today_revenue |-> 0]

----------------------------------------------------------------------------
(* One rerun of the script                                                 *)

\* what the page shows after the handler ended with outcome o
Render(f, pressed, o, td) ==
    [ pressed |-> pressed,
      msg     |-> o.msg,
      warning |-> o.warning,
      delta   |-> o.delta,
      price   |-> o.price,
      hours   |-> o.hours,
      est     |-> IF o.msg = "EmptyName" THEN EstimateStopped ELSE Estimate(f),
      stats   |-> IF o.msg = "EmptyName" THEN StatsStopped ELSE QuickStats(o.file, td) ]

Rerun(f, pressed) ==
    \E o \in (IF pressed THEN SaveBooking(f, file, disk, today) ELSE {NotPressed(file)}) :
        /\ o.msg \in {"Saved", "Unexpected"} => Len(saved) < MaxRows
        /\ file' = o.file
        /\ form' = f
        /\ out' = Render(f, pressed, o, today)
        /\ fresh' = TRUE
        /\ saved' = IF o.msg = "Saved" THEN Append(saved, o.row) ELSE saved
        /\ UNCHANGED <<today, disk, sess, hist>>

----------------------------------------------------------------------------
(* Inputs                                                                  *)

NameBob == <<" ", "B", "o", "b", " ">>  \* " Bob "
NameNA == <<"N", "A">>  \* "NA"
NameAl == <<"A", "l">>  \* "Al"
NameBlank == <<" ", " ">>  \* "  "
NameEmpty == <<>>  \* ""

Pm0200 == <<"0", "2", ":", "0", "0", " ", "P", "M">>  \* "02:00 PM"
Pm0300 == <<"0", "3", ":", "0", "0", " ", "P", "M">>  \* "03:00 PM"
Pm0220Lower == <<"0", "2", ":", "2", "0", " ", "p", "m">>  \* "02:20 pm"
Pm1130 == <<"1", "1", ":", "3", "0", " ", "P", "M">>  \* "11:30 PM"
Am1230 == <<"1", "2", ":", "3", "0", " ", "A", "M">>  \* "12:30 AM"
Am1200 == <<"1", "2", ":", "0", "0", " ", "A", "M">>  \* "12:00 AM"
Am1201 == <<"1", "2", ":", "0", "1", " ", "A", "M">>  \* "12:01 AM"
Pm205Padded == <<" ", "2", ":", "5", " ", " ", "P", "M", " ">>  \* " 2:5  PM "
Pm1200 == <<"1", "2", ":", "0", "0", " ", "P", "M">>  \* "12:00 PM"
Bad2500 == <<"2", "5", ":", "0", "0", " ", "P", "M">>  \* "25:00 PM"
BadNoSpace == <<"0", "2", ":", "0", "0", "P", "M">>  \* "02:00PM"
Bad1300 == <<"1", "3", ":", "0", "0", " ", "P", "M">>  \* "13:00 PM"
BadWords == <<"t", "w", "o">>  \* "two"
Bad0030 == <<"0", "0", ":", "3", "0", " ", "A", "M">>  \* "00:30 AM"
BadEmpty == <<>>  \* ""

MkForm(n, t, s, e) == [name |-> n, table |-> t, start |-> s, end |-> e]

\* the widgets' initial values
DefaultForm == MkForm(NameEmpty, T1, Pm0200, Pm0300)

\* the forms a user submits in the ledger specifications
Forms ==
    { MkForm(NameBob, T1, Pm0200, Pm0300),     \* one hour at 240
      MkForm(NameNA, T3, Pm1130, Am1230),      \* one hour across midnight at 180
      MkForm(NameAl, T2, Pm0200, Pm0220Lower), \* twenty minutes at 240
      MkForm(NameBlank, T1, Pm0200, Pm0300),   \* whitespace-only name
      MkForm(NameBob, T3, Pm0200, Pm0200),     \* identical start and end
      MkForm(NameBob, T1, Bad2500, Pm0300) }   \* malformed start time

\* the forms of the calculation specification
CalcNames == {NameBob, NameAl, NameBlank}
CalcTimes == { Pm0200, Pm0300, Pm0220Lower, Pm1130, Am1230, Am1200, Am1201, Pm205Padded,
               Pm1200, Bad2500, BadNoSpace, Bad1300, BadWords, Bad0030, BadEmpty }
CalcForms == { MkForm(n, t, s, e) : n \in CalcNames, t \in Tables, s \in CalcTimes, e \in CalcTimes }

----------------------------------------------------------------------------
(* Sessions of the concurrent specification                                *)

Sessions == {1, 2}

IdleSession == [pc |-> "idle", msg |-> "none", df |-> <<>>, row |-> NoRow]

----------------------------------------------------------------------------
(* Initial states                                                          *)

InitWith(f) ==
    /\ file = Absent
    /\ today = 0
    /\ disk = "ok"
    /\ form = f
    /\ out = Render(f, FALSE, NotPressed(Absent), 0)
    /\ fresh = TRUE
    /\ saved = <<>>
    /\ sess = [s \in Sessions |-> IdleSession]
    /\ hist = <<>>

Init == InitWith(DefaultForm)

InitCalc == \E f \in CalcForms : InitWith(f)

----------------------------------------------------------------------------
(* Actions                                                                 *)

\* the user edits the form, with or without pressing Save Booking
Interact == \E f \in Forms, pressed \in BOOLEAN : Rerun(f, pressed)

\* the same form is run again, with or without pressing Save Booking
Recalculate == \E pressed \in BOOLEAN : Rerun(form, pressed)

\* the calendar day changes
Midnight ==
    /\ today < MaxDay
    /\ today' = today + 1
    /\ fresh' = FALSE
    /\ UNCHANGED <<file, disk, form, out, saved, sess, hist>>

\* something outside the program damages the file
Corrupt ==
    /\ file.exists /\ file.parsable
    /\ file' = [file EXCEPT !.parsable = FALSE]
    /\ fresh' = FALSE
    /\ UNCHANGED <<today, disk, form, out, saved, sess, hist>>

\* the file system starts or stops refusing writes
DiskChange ==
    /\ \E d \in {"ok", "denied", "full"} \ {disk} : disk' = d
    /\ fresh' = FALSE
    /\ UNCHANGED <<file, today, form, out, saved, sess, hist>>

Next == Interact \/ Midnight

Spec == Init /\ [][Next]_vars

NextFault == Interact \/ Corrupt \/ DiskChange

SpecFault == Init /\ [][NextFault]_vars

NextCalc == Recalculate

SpecCalc == InitCalc /\ [][NextCalc]_vars

----------------------------------------------------------------------------
(* Two sessions submitting at the same time.  The handler's read of the    *)
(* file and its write are separate system calls; another session's calls   *)
(* can fall between them.                                                  *)

\* the ledger one earlier booking left behind
OneRowFile ==
    [exists |-> TRUE, parsable |-> TRUE,
     rows |-> << NewRow(MkForm(NameAl, T1, Pm0200, Pm0300), Price(T1, HourSeconds), 0) >>]

InitConc ==
    /\ file \in {Absent, OneRowFile}
    /\ today = 0
    /\ disk = "ok"
    /\ form = DefaultForm
    /\ out = Render(DefaultForm, FALSE, NotPressed(Absent), 0)
    /\ fresh = FALSE
    /\ saved = <<>>
    /\ sess = [s \in Sessions |-> IdleSession]
    /\ hist = <<>>

\* validation, calculation and the read of the ledger
ConcBegin(s) ==
    \E f \in Forms :
        /\ sess[s].pc = "idle"
        /\ LET v == Validate(f)
           IN  IF v.msg # "ok"
               THEN /\ sess' = [sess EXCEPT ![s] = [pc |-> "done", msg |-> v.msg,
                                                    df |-> <<>>, row |-> NoRow]]
                    /\ hist' = hist
               ELSE /\ sess' = [sess EXCEPT ![s] =
                                   [pc |-> "loaded", msg |-> "none",
                                    df |-> LoadLedger(file).df,
                                    row |-> NewRow(f, v.price, today)]]
                    /\ hist' = Append(hist, <<s, "read">>)
        /\ UNCHANGED <<file, today, disk, form, out, fresh, saved>>

\* the append and the rewrite of the file
ConcFinish(s) ==
    /\ sess[s].pc = "loaded"
    /\ \E w \in ToCsv(file, Concat(sess[s].df, sess[s].row), disk) :
        /\ file' = w.file
        /\ sess' = [sess EXCEPT ![s].pc = "done",
                                ![s].msg = IF w.raised THEN "Unexpected" ELSE "Saved"]
        /\ saved' = IF w.raised THEN saved ELSE Append(saved, sess[s].row)
    /\ hist' = Append(hist, <<s, "write">>)
    /\ UNCHANGED <<today, disk, form, out, fresh>>

NextConc == \E s \in Sessions : ConcBegin(s) \/ ConcFinish(s)

SpecConc == InitConc /\ [][NextConc]_vars

----------------------------------------------------------------------------
(* Properties                                                              *)

\* a name made of whitespace only
BlankName(name) == \A i \in 1..Len(name) : name[i] = " "

\* the reference rates, per table
RateOf(t) == IF t = "French Snooker Table" THEN 180 ELSE 240

\* sum of the Price column of the first n rows
RECURSIVE RevenueOf(_, _)
RevenueOf(rows, n) == IF n = 0 THEN 0 ELSE rows[n].Price + RevenueOf(rows, n - 1)

\* sum of the Price column of the first n rows dated d
RECURSIVE RevenueOn(_, _, _)
RevenueOn(rows, n, d) ==
    IF n = 0 THEN 0
    ELSE (IF rows[n].Date = d THEN rows[n].Price ELSE 0) + RevenueOn(rows, n - 1, d)

\* the row a successful submission of form f on day d is to leave in the file
ExpectedRow(f, d) ==
    [ Name  |-> Strip(f.name),
      Table |-> f.table,
      Time  |-> f.start \o <<" ", "-", " ">> \o f.end,
      Price |-> Price(f.table, Delta(ParseTime(f.start), ParseTime(f.end))),
      Date  |-> d ]

\* the number of rows a read of the file returns
Readable(fl) == IF fl.exists /\ fl.parsable THEN Len(fl.rows) ELSE 0

\* C1: with no read or write failure, the persisted ledger is exactly the
\* sequence of rows of the successful bookings, in call order.
C1_LedgerIsBookingHistory == file.rows = saved

\* C1 (the part that holds): the ledger has one row per successful booking.
C1_OneRowPerBooking == Len(file.rows) = Len(saved)

\* C2: a submission rejected for its input (blank name, unparsable time,
\* identical start and end) leaves the file exactly as it was.
C2_RejectionLeavesLedger ==
    [][ (fresh' /\ out'.pressed) =>
          LET f == form'
              s == ParseTime(f.start)
              e == ParseTime(f.end)
          IN  /\ BlankName(f.name) => (out'.msg = "EmptyName" /\ file' = file)
              /\ (~BlankName(f.name) /\ (s = Invalid \/ e = Invalid))
                    => (out'.msg = "InvalidTime" /\ file' = file)
              /\ (~BlankName(f.name) /\ s # Invalid /\ s = e)
                    => (out'.msg = "NonPositive" /\ file' = file)
              /\ out'.msg \in {"EmptyName", "InvalidTime", "NonPositive"}
                    => (file' = file /\ saved' = saved) ]_vars

C2_Witness ==
    /\ fresh /\ out.pressed /\ out.msg = "EmptyName"
    /\ form.name # <<>>
    /\ file.exists /\ file.parsable /\ Len(file.rows) = 1

\* C3: the duration is end - start, plus 24 hours when end is before start;
\* identical times are rejected; an accepted duration lies strictly between
\* 0 and 24 hours.
C3_Duration ==
    (fresh /\ out.pressed /\ ~BlankName(form.name)) =>
        LET s == ParseTime(form.start)
            e == ParseTime(form.end)
        IN  (s # Invalid /\ e # Invalid) =>
              /\ e > s => (out.msg = "Saved" /\ out.delta = e - s)
              /\ e < s => (out.msg = "Saved" /\ out.delta = e - s + 24 * 3600)
              /\ e = s => out.msg = "NonPositive"
              /\ out.msg = "Saved" => (0 < out.delta /\ out.delta < 24 * 3600)
              /\ (form.start = Pm1130 /\ form.end = Am1230) => out.delta = 3600

C3_Witness ==
    /\ fresh /\ out.pressed /\ out.msg = "Saved"
    /\ form.start = Pm1130 /\ form.end = Am1230
    /\ out.delta = 3600

\* C4: the price of a successful booking is rate x hours rounded to two
\* digits, is not negative, is the price stored in the row, and is the same
\* every time the same inputs are submitted.
C4_Price ==
    (fresh /\ out.pressed /\ out.msg = "Saved") =>
        LET exact == RateOf(form.table) * out.delta * 100   \* hundredths x 3600
            diff  == out.price * 3600 - exact
        IN  /\ 2 * diff <= 3600 /\ 2 * diff >= 0 - 3600
            /\ out.price >= 0
            /\ \A i \in 1..Len(file.rows) : file.rows[i].Price = out.price
            /\ (form.table = T3 /\ out.delta = 1200) => out.price = 6000
            /\ (form.table = T1 /\ out.delta = 60) => out.price = 400

C4_Witness ==
    /\ fresh /\ out.pressed /\ out.msg = "Saved"
    /\ form.table = T3 /\ out.delta = 1200 /\ out.price = 6000
    /\ Len(file.rows) = 2

\* C5: a valid booking submitted while the file cannot be parsed is saved
\* with a warning and leaves exactly one row, the new booking.
C5_CorruptLedgerReset ==
    [][ ( /\ fresh' /\ out'.pressed
          /\ Validate(form').msg = "ok"
          /\ file.exists /\ ~file.parsable
          /\ disk = "ok" )
        => ( /\ out'.msg = "Saved"
             /\ out'.warning
             /\ file'.exists /\ file'.parsable
             /\ file'.rows = << ExpectedRow(form', today) >> ) ]_vars

C5_Witness ==
    /\ fresh /\ out.pressed /\ out.msg = "Saved" /\ out.warning
    /\ Len(saved) = 2
    /\ Len(file.rows) = 1

\* C6: when the write fails the submission ends with an error, not with the
\* confirmation, the ledger read back is not longer than before, and the
\* same submission repeated once writes work again is saved as the last row.
C6_WriteFailure ==
    [][ /\ ( /\ fresh' /\ out'.pressed
             /\ Validate(form').msg = "ok"
             /\ disk # "ok" )
           => ( /\ out'.msg = "Unexpected"
                /\ Readable(file') <= Readable(file)
                /\ saved' = saved )
        /\ ( /\ out.pressed /\ out.msg = "Unexpected"
             /\ fresh' /\ out'.pressed /\ form' = form
             /\ disk = "ok" )
           => ( /\ out'.msg = "Saved"
                /\ Readable(file') = Readable(file) + 1
                /\ file'.rows[Len(file'.rows)] = ExpectedRow(form, today) ) ]_vars

C6_Witness ==
    /\ fresh /\ out.pressed /\ out.msg = "Unexpected"
    /\ disk = "full"
    /\ Len(saved) = 1

\* C7: the live estimate agrees with the booking on the same inputs: the
\* same price when the booking computes one, no estimate when it rejects.
C7_EstimateMatchesBooking ==
    (fresh /\ out.pressed /\ out.msg # "EmptyName") =>
        /\ out.msg = "Saved" =>
              (out.est.shown /\ out.est.price = out.price /\ out.est.delta = out.delta)
        /\ out.msg \in {"InvalidTime", "NonPositive"} => ~out.est.shown

\* C7 (the part that holds): the estimate equals the booking's price when
\* there is one, and is withheld when a time does not parse.
C7_EstimateWhenComputed ==
    (fresh /\ out.pressed /\ out.msg # "EmptyName") =>
        /\ out.msg = "Saved" =>
              (out.est.shown /\ out.est.price = out.price /\ out.est.delta = out.delta)
        /\ out.msg = "InvalidTime" => ~out.est.shown

\* C8: the stats shown by a rerun are those of the file as that rerun left
\* it: row count, sum of Price, sum of Price over today's rows; a booking
\* the rerun saved is counted.
C8_Stats ==
    fresh =>
        /\ out.stats.kind = "metrics" =>
              /\ file.exists
              /\ out.stats.total_bookings = Len(file.rows)
              /\ out.stats.total_revenue = RevenueOf(file.rows, Len(file.rows))
              /\ out.stats.today_revenue = RevenueOn(file.rows, Len(file.rows), today)
        /\ out.msg = "Saved" =>
              /\ out.stats.kind = "metrics"
              /\ out.stats.total_bookings >= 1
              /\ out.stats.today_revenue >= out.price

C8_Witness ==
    /\ fresh /\ out.msg = "Saved"
    /\ out.stats.total_bookings = 2
    /\ out.stats.today_revenue = out.price
    /\ out.stats.total_revenue > out.stats.today_revenue

\* both sessions have finished and both reported "Booking saved!"
BothSaved == \A s \in Sessions : sess[s].pc = "done" /\ sess[s].msg = "Saved"

\* both sessions read the file before either wrote it
Overlapped == Len(hist) = 4 /\ hist[1][2] = "read" /\ hist[2][2] = "read"

\* C9: unprotected read and write: overlapping submissions lose the first
\* writer's record; submissions that do not overlap leave both records.
C9_ConcurrentWriters ==
    BothSaved =>
        LET last == hist[4][1]
            n    == Len(file.rows)
        IN  IF Overlapped
            THEN /\ file.rows = CsvText(Concat(sess[last].df, sess[last].row))
                 /\ n = Len(sess[last].df) + 1
                 /\ n < Len(sess[last].df) + Len(saved)
            ELSE /\ n = Len(sess[last].df) + 1
                 /\ n >= 2
                 /\ SubSeq(file.rows, n - 1, n) = saved

\* C9 (the part that holds): the lost update, and the row count of
\* submissions that do not overlap.
C9_LostUpdate ==
    BothSaved =>
        LET last == hist[4][1]
            n    == Len(file.rows)
        IN  IF Overlapped
            THEN /\ file.rows = CsvText(Concat(sess[last].df, sess[last].row))
                 /\ n = Len(sess[last].df) + 1
                 /\ n < Len(sess[last].df) + Len(saved)
            ELSE /\ n = Len(sess[last].df) + 1
                 /\ n >= 2
                 /\ file.rows[n] = saved[2]

\* C10: every appended row has a strictly positive price: an accepted
\* booking lasts m whole minutes, 1 <= m <= 1439, and costs 4m or 3m rupees.
C10_PositivePrice ==
    /\ \A i \in 1..Len(file.rows) : file.rows[i].Price > 0
    /\ (fresh /\ out.pressed /\ out.msg = "Saved") =>
          LET m == out.delta \div 60
          IN  /\ out.delta = 60 * m
              /\ 1 <= m /\ m <= 1439
              /\ out.price = 100 * (IF form.table = T3 THEN 3 * m ELSE 4 * m)
              /\ out.price * 60 = 100 * m * RateOf(form.table)

C10_Witness ==
    /\ fresh /\ out.pressed /\ out.msg = "Saved"
    /\ out.delta = 60 * 1439
    /\ out.price = 100 * 4 * 1439
    /\ file.rows[1].Price = out.price

=============================================================================
